---- MODULE Spec2Model ----
(***************************************************************************)
(* Model of dashbouw.py: the start-up pipeline (API call, geometry         *)
(* preparation, RD -> WGS84 reprojection, column preparation, layout) and  *)
(* the Dash callback update_all_graphs that recomputes all figures and     *)
(* KPIs from the module-level DataFrame df on every input change.          *)
(*                                                                         *)
(* Conventions                                                             *)
(*  - a nullable pandas value (NaN / None / NaT) is a set with at most one *)
(*    element: {} is null, {v} is the value v;                             *)
(*  - a DataFrame is a sequence of rows (records), each carrying its       *)
(*    pandas index label in the field "index";                             *)
(*  - text that the code splits (project names) is a sequence of           *)
(*    one-character strings;                                               *)
(*  - RD coordinates are whole metres, WGS84 coordinates micro-degrees.    *)
(***************************************************************************)
EXTENDS Integers, Sequences, FiniteSets, TLC

VARIABLES
    pc,             \* position of the module-level script / server
    response,       \* outcome of requests.get (line 19)
    df,             \* the module-level DataFrame (lines 21-59)
    slider,         \* jaar-slider properties built at line 112
    map_type,       \* map-type-toggle.value
    selected_types, \* woningtype-checklist.value
    selected_year,  \* jaar-slider.value
    outputs,        \* the nine component properties the callback writes
    last,           \* the most recent dispatch of update_all_graphs
    calls           \* in-flight invocations (threaded server), per worker

vars == <<pc, response, df, slider, map_type, selected_types, selected_year,
          outputs, last, calls>>

-----------------------------------------------------------------------------
(* Nullable values and small helpers                                       *)

NaN == {}
Some(v) == {v}
IsNull(x) == x = {}
NotNull(x) == x # {}
Val(x) == CHOOSE v \in x : TRUE

Range(s) == {s[i] : i \in 1..Len(s)}

RECURSIVE SumSeq(_)
SumSeq(s) == IF s = <<>> THEN 0 ELSE Head(s) + SumSeq(Tail(s))

RECURSIVE Flatten(_)
Flatten(ss) == IF ss = <<>> THEN <<>> ELSE Head(ss) \o Flatten(Tail(ss))

\* F(v), with v evaluated once (a local variable of the code)
Bind(v, F(_)) == CHOOSE r \in {F(x) : x \in {v}} : TRUE

SetMax(S) == CHOOSE m \in S : \A x \in S : x <= m
SetMin(S) == CHOOSE m \in S : \A x \in S : m <= x

-----------------------------------------------------------------------------
(* Program constants                                                       *)

woningtypes == <<"socialeHuurZelfstPerm", "middeldureHuur", "vrijeSectorKoop">>

label_map == [socialeHuurZelfstPerm |-> "Sociale Huur",
              middeldureHuur |-> "Middeldure Huur",
              vrijeSectorKoop |-> "Vrije Sector Koop"]

\* .head(10) of the neighbourhood ranking
TopN == 10

\* the callback declares nine Outputs ...
CallbackOutputs == <<"map.figure", "pie-chart.figure", "bar-chart.figure",
                     "line-chart.figure", "top10-chart.figure",
                     "kpi-totaal.children", "kpi-projecten.children",
                     "kpi-buurten.children", "kpi-gemjaar.children">>

\* ... dash.no_update, the value that leaves an output as it is
no_update == [no_update |-> TRUE]

-----------------------------------------------------------------------------
(* Geometry preparation (lines 23-41)                                      *)

\* A geometry cell is either a str holding JSON text (wellformed says whether
\* json.loads accepts it, val is the value it denotes) or a native value.
GeomText(ok, v) == [isstr |-> TRUE, wellformed |-> ok, val |-> v]
GeomNative(v) == [isstr |-> FALSE, wellformed |-> TRUE, val |-> v]

\* json.loads(x) if isinstance(x, str) else x; any exception -> None
safe_load(x) ==
    IF x.isstr
    THEN IF x.wellformed THEN x.val ELSE NaN
    ELSE x.val

NullCentroid == [lon |-> NaN, lat |-> NaN]

\* the float inf: what json.loads makes of a number such as 1e999 (or of the
\* literal Infinity), and what pyproj returns for a point it cannot
\* transform; no coordinate of the model is as large
inf == 2000000000

\* ndarray.mean() of one column
mean(col) ==
    IF \E i \in 1..Len(col) : col[i] = inf THEN inf ELSE SumSeq(col) \div Len(col)

\* np.array(multipolygon[0][0]); coords[:, 0].mean(), coords[:, 1].mean();
\* any exception (None, no polygon, no ring, ring that is not an n x 2
\* array) -> lon = lat = None
extract_centroid(multipolygon) ==
    IF IsNull(multipolygon) THEN NullCentroid
    ELSE LET mp == Val(multipolygon) IN
         IF Len(mp) = 0 THEN NullCentroid
         ELSE IF Len(mp[1]) = 0 THEN NullCentroid
         ELSE LET coords == mp[1][1] IN
              IF Len(coords) = 0 THEN NullCentroid
              ELSE IF \E i \in 1..Len(coords) : Len(coords[i]) < 2
                   THEN NullCentroid
              ELSE [lon |-> Some(mean([i \in 1..Len(coords) |-> coords[i][1]])),
                    lat |-> Some(mean([i \in 1..Len(coords) |-> coords[i][2]]))]

-----------------------------------------------------------------------------
(* RD -> WGS84 (lines 43-51)                                               *)

\* transformer.transform(x, y) for EPSG:28992 -> EPSG:4326 (always_xy),
\* linearised around the RD origin (155000, 463000) = (5.387206, 52.155174):
\* one metre east is 14.7 micro-degrees, one metre north 9 micro-degrees.
\* errcheck is left at its default, so a point that cannot be transformed
\* raises nothing and comes back as (inf, inf).
transform(x, y) ==
    IF x = inf \/ y = inf
    THEN <<inf, inf>>
    ELSE <<5387206 + ((x - 155000) * 147) \div 10, 52155174 + (y - 463000) * 9>>

\* a null centroid makes transform raise (None) or return NaN; both leave
\* lon = lat = null
convert_rd_to_wgs84(row) ==
    IF IsNull(row.lon) \/ IsNull(row.lat)
    THEN NullCentroid
    ELSE LET p == transform(Val(row.lon), Val(row.lat))
         IN [lon |-> Some(p[1]), lat |-> Some(p[2])]

-----------------------------------------------------------------------------
(* Column preparation (lines 53-59)                                        *)

\* pd.to_numeric(errors="coerce") on the texts the modelled API sends
to_numeric(x) ==
    CASE x = "0" -> Some(0)
      [] x = "1" -> Some(1)
      [] x = "2" -> Some(2)
      [] x = "5" -> Some(5)
      [] x = "10" -> Some(10)
      [] x = "-1" -> Some(0 - 1)
      [] OTHER -> NaN

\* pd.to_datetime(errors="coerce"); only .dt.year of the timestamp is used
to_datetime(x) ==
    CASE x = "2022-03-01" -> Some(2022)
      [] x = "2023-06-01" -> Some(2023)
      [] x = "2024-09-15" -> Some(2024)
      [] OTHER -> NaN

\* position of the first c in s, 0 when absent
RECURSIVE IndexOf(_, _)
IndexOf(s, c) ==
    IF s = <<>> THEN 0
    ELSE IF Head(s) = c THEN 1
    ELSE LET k == IndexOf(Tail(s), c) IN IF k = 0 THEN 0 ELSE k + 1

\* s.split(c)[0]
SplitFirst(s, c) ==
    LET k == IndexOf(s, c) IN IF k = 0 THEN s ELSE SubSeq(s, 1, k - 1)

\* s.split(c)[1], for s containing c
SplitSecond(s, c) ==
    LET k == IndexOf(s, c) IN SplitFirst(SubSeq(s, k + 1, Len(s)), c)

\* x.split('/')[1].split('-')[0] if isinstance(x, str) and '/' in x else x
short_name(x) ==
    IF NotNull(x) /\ IndexOf(Val(x), "/") > 0
    THEN Some(SplitFirst(SplitSecond(Val(x), "/"), "-"))
    ELSE x

\* df.dropna(subset=['lon', 'lat'])
dropna_lonlat(rows) ==
    SelectSeq(rows, LAMBDA r : NotNull(r.lon) /\ NotNull(r.lat))

\* one record of the API's list -> one row of df, lines 21-58
PrepareRow(i, rec) ==
    LET c == convert_rd_to_wgs84(extract_centroid(safe_load(rec.geometrie)))
    IN [index |-> i,
        lon |-> c.lon,
        lat |-> c.lat,
        socialeHuurZelfstPerm |-> to_numeric(rec.socialeHuurZelfstPerm),
        middeldureHuur |-> to_numeric(rec.middeldureHuur),
        vrijeSectorKoop |-> to_numeric(rec.vrijeSectorKoop),
        startBouwGepland |-> to_datetime(rec.startBouwGepland),
        projectnaamAfkorting |-> short_name(rec.projectnaamAfkorting),
        stadsdeelNaam |-> rec.stadsdeelNaam,
        wijkNaam |-> rec.wijkNaam,
        buurtNaam |-> rec.buurtNaam]

\* lines 21-59 on a non-empty record list
PrepareFrame(data) ==
    dropna_lonlat([i \in 1..Len(data) |-> PrepareRow(i, data[i])])

-----------------------------------------------------------------------------
(* update_all_graphs (lines 246-404)                                       *)

\* df[df["startBouwGepland"].dt.year <= selected_year]: the year of NaT is
\* NaN and NaN <= year is False
YearFilter(frame, year) ==
    SelectSeq(frame, LAMBDA r : NotNull(r.startBouwGepland)
                                /\ Val(r.startBouwGepland) <= year)

\* one long-form row: the id_vars of line 254, variable and value
MeltRow(r, t) ==
    [lat |-> r.lat, lon |-> r.lon,
     projectnaamAfkorting |-> r.projectnaamAfkorting,
     stadsdeelNaam |-> r.stadsdeelNaam,
     wijkNaam |-> r.wijkNaam,
     buurtNaam |-> r.buurtNaam,
     startBouwGepland |-> r.startBouwGepland,
     variable |-> t,
     value |-> r[t]]

\* filtered_df.melt(id_vars, value_vars=selected_types): all rows for the
\* first selected type, then all rows for the second, ...
Melt(frame, types) ==
    Flatten([k \in 1..Len(types) |->
                [i \in 1..Len(frame) |-> MeltRow(frame[i], types[k])]])

\* the filter letting zero through
PositiveFilterGE(melted) ==
    SelectSeq(melted, LAMBDA r : NotNull(r.value) /\ Val(r.value) >= 0)

\* melted[melted["value"] > 0]: NaN > 0 is False
PositiveFilter(melted) ==
    SelectSeq(melted, LAMBDA r : NotNull(r.value) /\ Val(r.value) > 0)

\* melted["variable"].map(label_map)
WithLabel(melted) ==
    [i \in 1..Len(melted) |->
        [lat |-> melted[i].lat, lon |-> melted[i].lon,
         projectnaamAfkorting |-> melted[i].projectnaamAfkorting,
         stadsdeelNaam |-> melted[i].stadsdeelNaam,
         wijkNaam |-> melted[i].wijkNaam,
         buurtNaam |-> melted[i].buurtNaam,
         startBouwGepland |-> melted[i].startBouwGepland,
         variable |-> melted[i].variable,
         value |-> melted[i].value,
         woningtype_label |-> label_map[melted[i].variable]]]

\* lines 255-257
LongForm(filtered_df, types) ==
    WithLabel(PositiveFilter(Melt(filtered_df, types)))

\* Series.sum(): nulls are skipped
SumValues(rows) ==
    SumSeq([i \in 1..Len(rows) |->
               IF IsNull(rows[i].value) THEN 0 ELSE Val(rows[i].value)])

\* melted.groupby([key, 'woningtype_label'])['value'].sum().reset_index():
\* one row per observed (key, label), rows with a null key are dropped
GroupSum(melted, key) ==
    {[group |-> g, woningtype_label |-> l,
      value |-> SumValues(SelectSeq(melted,
                    LAMBDA r : r[key] = Some(g) /\ r.woningtype_label = l))] :
       <<g, l>> \in {<<Val(melted[i][key]), melted[i].woningtype_label>> :
                        i \in {j \in 1..Len(melted) : NotNull(melted[j][key])}}}

\* data.groupby('jaar')[selected_types].sum(): per year present in the
\* filtered rows with a date, the sum of every selected column of the wide
\* frame (nulls skipped), then one row per (jaar, woningtype)
ByYear(filtered_df, types) ==
    Bind(SelectSeq(filtered_df, LAMBDA r : NotNull(r.startBouwGepland)),
         LAMBDA data :
           LET jaren == {Val(data[i].startBouwGepland) : i \in 1..Len(data)}
               Col(j, t) ==
                 SumSeq([i \in 1..Len(data) |->
                           IF Val(data[i].startBouwGepland) = j /\ NotNull(data[i][t])
                           THEN Val(data[i][t]) ELSE 0])
           IN {[jaar |-> j, woningtype |-> t, aantal |-> Col(j, t)] :
                  j \in jaren, t \in Range(types)})

\* the ranking with ascending left at its default
RECURSIVE RankAscending(_, _)
RankAscending(keys, total) ==
    IF keys = {} THEN <<>>
    ELSE Bind(SetMin({total[k] : k \in keys}), LAMBDA m :
         Bind(SetMin({k \in keys : total[k] = m}), LAMBDA b :
              <<b>> \o RankAscending(keys \ {b}, total)))

\* Series.sort_values(ascending=False) over the group totals, whose index is
\* in ascending key order; equal totals keep that order
RECURSIVE RankDescending(_, _)
RankDescending(keys, total) ==
    IF keys = {} THEN <<>>
    ELSE Bind(SetMax({total[k] : k \in keys}), LAMBDA m :
         Bind(SetMin({k \in keys : total[k] = m}), LAMBDA b :
              <<b>> \o RankDescending(keys \ {b}, total)))

\* .head(n)
HeadN(s, n) == SubSeq(s, 1, IF Len(s) < n THEN Len(s) ELSE n)

\* grand total of one neighbourhood over the (buurtNaam, label) groups
BuurtTotal(buurt_type_data, b) ==
    SumSeq([k \in 1..Len(woningtypes) |->
              LET S == {r \in buurt_type_data :
                          r.group = b /\ r.woningtype_label = label_map[woningtypes[k]]}
              IN IF S = {} THEN 0 ELSE (CHOOSE r \in S : TRUE).value])

\* lines 369-375
TopBuurten(buurt_type_data) ==
    Bind([b \in {r.group : r \in buurt_type_data} |->
             BuurtTotal(buurt_type_data, b)],
         LAMBDA total : HeadN(RankDescending(DOMAIN total, total), TopN))

\* line 376
Top10Data(buurt_type_data) ==
    Bind(Range(TopBuurten(buurt_type_data)),
         LAMBDA top_buurten : {r \in buurt_type_data : r.group \in top_buurten})

\* Series.nunique(): the number of distinct non-null values
NUnique(melted, key) ==
    Cardinality({Val(melted[i][key]) :
                    i \in {j \in 1..Len(melted) : NotNull(melted[j][key])}})

\* int(mean) of n non-negative years summing to total: truncation
IntOfMean(total, n) == total \div n

\* f"{n:,}": the decimal digits in groups of three, written here as the
\* sequence of the groups' values
RECURSIVE FormatThousands(_)
FormatThousands(n) ==
    IF n < 1000 THEN <<n>>
    ELSE Append(FormatThousands(n \div 1000), n % 1000)

\* f"{n}"
FormatPlain(n) == <<n>>

\* lines 258-404, given the two frames lines 251-257 built
Aggregate(mt, types, filtered_df, melted) ==
    LET wijk_data == GroupSum(melted, "wijkNaam")
        bar_data == GroupSum(melted, "wijkNaam")
        jaren == [i \in 1..Len(melted) |->
                     IF IsNull(melted[i].startBouwGepland) THEN 0
                     ELSE Val(melted[i].startBouwGepland)]
        n_jaren == Cardinality({i \in 1..Len(melted) :
                                   NotNull(melted[i].startBouwGepland)})
    IN IF n_jaren = 0
       THEN \* the mean of no years is NaN; int(NaN) raises ValueError (line 398)
            [raised |-> TRUE, value |-> <<>>]
       ELSE [raised |-> FALSE,
             value |-> <<
               [figure |-> IF mt = "heatmap" THEN "density_mapbox"
                                            ELSE "scatter_mapbox",
                data |-> melted],
               [figure |-> "pie", data |-> wijk_data],
               [figure |-> "bar", data |-> bar_data],
               [figure |-> "line", data |-> ByYear(filtered_df, types)],
               [figure |-> "bar_h",
                data |-> Bind(GroupSum(melted, "buurtNaam"),
                              LAMBDA buurt_type_data : Top10Data(buurt_type_data))],
               [children |-> FormatThousands(SumValues(melted))],
               [children |-> FormatPlain(NUnique(melted, "projectnaamAfkorting"))],
               [children |-> FormatPlain(NUnique(melted, "buurtNaam"))],
               [children |-> FormatPlain(IntOfMean(SumSeq(jaren), n_jaren))] >>]

\* the return of line 248
EmptySelectionReturn ==
    <<no_update, no_update, no_update, no_update, no_update>>

\* the whole function, reading the module-level frame
update_all_graphs(frame, mt, types, year) ==
    IF types = <<>>
    THEN [raised |-> FALSE, value |-> EmptySelectionReturn]
    ELSE Bind(YearFilter(frame, year), LAMBDA filtered_df :
         Bind(LongForm(filtered_df, types), LAMBDA melted :
              Aggregate(mt, types, filtered_df, melted)))

\* What the decorator of lines 231-244 makes of a return: an exception or a
\* return that does not hold one value per declared Output fails the request
\* and changes nothing on the page; otherwise every value other than
\* no_update replaces its output.
Dispatch(res, outs) ==
    IF res.raised
    THEN [outcome |-> "Exception", outputs |-> outs]
    ELSE IF Len(res.value) # Len(CallbackOutputs)
    THEN [outcome |-> "InvalidCallbackReturnValue", outputs |-> outs]
    ELSE [outcome |-> IF \A k \in 1..Len(res.value) : res.value[k] = no_update
                      THEN "NoUpdate" ELSE "Populated",
          outputs |-> [o \in Range(CallbackOutputs) |->
                         LET k == CHOOSE j \in 1..Len(CallbackOutputs) :
                                      CallbackOutputs[j] = o
                         IN IF res.value[k] = no_update THEN outs[o]
                            ELSE res.value[k]]]

-----------------------------------------------------------------------------
(* What the API may answer                                                 *)

\* bounds of the model
MaxRecords == 2
NumWide == 11
NumWorkers == 2

GoodRing == << <<121000, 487000>>, <<121020, 487000>>,
               <<121020, 487040>>, <<121000, 487040>> >>

\* a ring with a coordinate too large for a float
HugeRing == << <<121000, 487000>>, <<inf, 487000>> >>

\* geometry cells: a native MultiPolygon, its JSON text, malformed JSON
\* text, a missing value, the JSON text of a MultiPolygon whose first ring
\* has no points, one whose ring holds 1e999
Geometries ==
    << GeomNative(Some(<< <<GoodRing>> >>)),
       GeomText(TRUE, Some(<< <<GoodRing>> >>)),
       GeomText(FALSE, NaN),
       GeomNative(NaN),
       GeomText(TRUE, Some(<< << << >> >> >>)),
       GeomNative(Some(<< <<HugeRing>> >>)) >>

Area(s, w, b) == [stadsdeelNaam |-> Some(s), wijkNaam |-> Some(w), buurtNaam |-> Some(b)]
NoArea == [stadsdeelNaam |-> NaN, wijkNaam |-> NaN, buurtNaam |-> NaN]

Name(chars) == Some(chars)

\* one record of the embedded list, as json_normalize lays it out
Rec(g, d, c, n, a) ==
    [geometrie |-> g,
     startBouwGepland |-> d,
     socialeHuurZelfstPerm |-> c[1],
     middeldureHuur |-> c[2],
     vrijeSectorKoop |-> c[3],
     projectnaamAfkorting |-> n,
     stadsdeelNaam |-> a.stadsdeelNaam,
     wijkNaam |-> a.wijkNaam,
     buurtNaam |-> a.buurtNaam]

BaseDate == "2022-03-01"
BaseCounts == <<"1", "2", "n.v.t.">>
BaseName == Name(<<"Z", "/", "A", "-", "1">>)
BaseArea == Area(1, 1, 1)

\* every geometry with ordinary attributes; a good one with none
GeomSlice ==
    [i \in 1..Len(Geometries) |->
        Rec(Geometries[i], BaseDate, BaseCounts, BaseName, BaseArea)]
    \o << Rec(Geometries[2], "onbekend", <<"n.v.t.", "n.v.t.", "n.v.t.">>,
             NaN, NoArea) >>

\* a good geometry with other dates and counts
DateCountSlice ==
    LET g == Geometries[1] IN
    << Rec(g, "2022-03-01", <<"0", "-1", "2">>, BaseName, BaseArea),
       Rec(g, "2022-03-01", <<"n.v.t.", "0", "0">>, BaseName, BaseArea),
       Rec(g, "2024-09-15", BaseCounts, BaseName, BaseArea),
       Rec(g, "onbekend", BaseCounts, BaseName, BaseArea) >>

\* a good geometry with other names and areas
NameAreaSlice ==
    LET g == Geometries[1] IN
    << Rec(g, BaseDate, BaseCounts, Name(<<"Z", "/", "A", "-", "2">>), BaseArea),
       Rec(g, BaseDate, BaseCounts, NaN, BaseArea),
       Rec(g, BaseDate, BaseCounts, BaseName, Area(2, 2, 3)),
       Rec(g, BaseDate, BaseCounts, BaseName, NoArea) >>

RawCatalogue == GeomSlice \o DateCountSlice \o NameAreaSlice

\* record lists of up to MaxRecords different catalogue records (in
\* catalogue order: nothing the code computes depends on the order of the
\* list)
SmallData ==
    UNION {{[i \in 1..n |-> RawCatalogue[ix[i]]] :
               ix \in {f \in [1..n -> 1..Len(RawCatalogue)] :
                          \A i \in 1..n, j \in 1..n : i < j => f[i] < f[j]}} :
           n \in 0..MaxRecords}

\* NumWide projects in NumWide neighbourhoods; those in H are larger
WideList(H) ==
    [i \in 1..NumWide |->
        Rec(Geometries[1], BaseDate,
            << IF i \in H THEN "2" ELSE "1",
               IF i % 3 = 0 THEN "2" ELSE "n.v.t.",
               "0" >>,
            Name(<<"W">>), Area(1, 1 + (i % 2), i))]

WideData == {WideList(H) : H \in {{}} \cup {{h} : h \in 1..NumWide}}

\* three projects: P1 (ward 1, 2023, 10 sociale huur), P2 (ward 1, 2024,
\* 5 vrije sector koop), P3 (ward 2, 2022, 0 middeldure huur)
ScenarioData ==
    << Rec(Geometries[1], "2023-06-01", <<"10", "0", "0">>, Name(<<"P", "1">>), Area(1, 1, 1)),
       Rec(Geometries[1], "2024-09-15", <<"0", "0", "5">>, Name(<<"P", "2">>), Area(1, 1, 2)),
       Rec(Geometries[1], "2022-03-01", <<"0", "0", "0">>, Name(<<"P", "3">>), Area(2, 2, 3)) >>

\* requests.get raises; the answer is an error page that is no JSON or has
\* no '_embedded' list; the answer holds a record list
Responses ==
    {[kind |-> k, data |-> <<>>] : k \in {"ConnectionError", "HTTPError", "NoEmbedded"}}
    \cup {[kind |-> "ok", data |-> d] : d \in SmallData \cup WideData \cup {ScenarioData}}

-----------------------------------------------------------------------------
(* The module-level script                                                 *)

Unset == [unset |-> TRUE]
NoOutputs == [o \in Range(CallbackOutputs) |-> Unset]
NoCall == [outcome |-> "none", map_type |-> "heatmap", selected_types |-> <<>>,
           selected_year |-> 0, raised |-> FALSE, value |-> <<>>]
Idle == [pc |-> "idle"]

\* the import of the module ended in an uncaught exception
Crashed == pc \in {"crashed_ApiCall", "crashed_PrepareData", "crashed_BuildLayout"}

Init ==
    /\ pc = "start"
    /\ response = [kind |-> "none", data |-> <<>>]
    /\ df = <<>>
    /\ slider = [min |-> 0, max |-> 0, value |-> 0]
    /\ map_type = "heatmap"
    /\ selected_types = woningtypes
    /\ selected_year = 0
    /\ outputs = NoOutputs
    /\ last = NoCall
    /\ calls = [w \in 1..NumWorkers |-> Idle]

\* lines 14-21: an exception in requests.get, response.json() or the two
\* subscripts is not caught and ends the import
ApiCall ==
    /\ pc = "start"
    /\ \E r \in Responses :
          /\ response' = r
          /\ pc' = IF r.kind = "ok" THEN "fetched" ELSE "crashed_ApiCall"
    /\ UNCHANGED <<df, slider, map_type, selected_types, selected_year,
                   outputs, last, calls>>

\* lines 23-59: with no record json_normalize gives a frame without
\* columns and df['geometrie.coordinates'] raises KeyError
PrepareData ==
    /\ pc = "fetched"
    /\ IF Len(response.data) = 0
       THEN pc' = "crashed_PrepareData" /\ df' = df
       ELSE pc' = "prepared" /\ df' = PrepareFrame(response.data)
    /\ UNCHANGED <<response, slider, map_type, selected_types, selected_year,
                   outputs, last, calls>>

\* years present in the frame
FrameYears(frame) ==
    {Val(frame[i].startBouwGepland) :
        i \in {j \in 1..Len(frame) : NotNull(frame[j].startBouwGepland)}}

\* lines 112-121: min and max of no years are NaN and int(NaN) raises
SliderOf(frame) ==
    [min |-> SetMin(FrameYears(frame)),
     max |-> SetMax(FrameYears(frame)),
     value |-> SetMax(FrameYears(frame))]

\* lines 69-227
BuildLayout ==
    /\ pc = "prepared"
    /\ IF FrameYears(df) = {}
       THEN pc' = "crashed_BuildLayout" /\ UNCHANGED <<slider, selected_year>>
       ELSE /\ pc' = "serving"
            /\ slider' = SliderOf(df)
            /\ selected_year' = SliderOf(df).value
    /\ UNCHANGED <<response, df, map_type, selected_types, outputs, last, calls>>

-----------------------------------------------------------------------------
(* The page: every change of an Input runs update_all_graphs               *)

Fire(mt, types, year, outs) ==
    \E res \in {update_all_graphs(df, mt, types, year)} :
    \E d \in {Dispatch(res, outs)} :
       /\ map_type' = mt
       /\ selected_types' = types
       /\ selected_year' = year
       /\ outputs' = d.outputs
       /\ last' = [outcome |-> d.outcome, map_type |-> mt,
                   selected_types |-> types, selected_year |-> year,
                   raised |-> res.raised, value |-> res.value]
       /\ UNCHANGED <<pc, response, df, slider, calls>>

\* a browser loads the layout: the inputs have their layout values and the
\* callback runs once
PageLoad ==
    /\ pc = "serving"
    /\ Fire("heatmap", woningtypes, slider.value, NoOutputs)

\* map-type-toggle
ChangeMapType ==
    /\ pc = "serving" /\ last.outcome # "none"
    /\ \E mt \in {"scatter", "heatmap"} :
          /\ mt # map_type
          /\ Fire(mt, selected_types, selected_year, outputs)

\* woningtype-checklist: a switched-on type is appended to the value, a
\* switched-off one removed
ToggleWoningtype ==
    /\ pc = "serving" /\ last.outcome # "none"
    /\ \E t \in Range(woningtypes) :
          Fire(map_type,
               IF t \in Range(selected_types)
               THEN SelectSeq(selected_types, LAMBDA x : x # t)
               ELSE Append(selected_types, t),
               selected_year, outputs)

\* jaar-slider
MoveSlider ==
    /\ pc = "serving" /\ last.outcome # "none"
    /\ \E y \in slider.min..slider.max :
          /\ y # selected_year
          /\ Fire(map_type, selected_types, y, outputs)

Next ==
    \/ ApiCall
    \/ PrepareData
    \/ BuildLayout
    \/ PageLoad
    \/ ChangeMapType
    \/ ToggleWoningtype
    \/ MoveSlider

Spec == Init /\ [][Next]_vars

-----------------------------------------------------------------------------
(* Overlapping requests: the server runs update_all_graphs on a worker per *)
(* request, each with the input values its request carries                 *)

\* the frame written back to the module-level name by the year filter
BeginCallInPlace(w, mt, types, year) ==
    /\ pc = "serving"
    /\ calls[w].pc = "idle"
    /\ df' = YearFilter(df, year)
    /\ calls' = [calls EXCEPT ![w] =
          IF types = <<>>
          THEN [pc |-> "returned", map_type |-> mt, selected_types |-> types,
                selected_year |-> year, raised |-> FALSE,
                value |-> EmptySelectionReturn]
          ELSE [pc |-> "running", map_type |-> mt, selected_types |-> types,
                selected_year |-> year,
                filtered_df |-> YearFilter(df, year),
                melted |-> LongForm(YearFilter(df, year), types)]]
    /\ UNCHANGED <<pc, response, slider, map_type, selected_types,
                   selected_year, outputs, last>>

\* lines 246-257: the guard, then the locals filtered_df and melted
BeginCall(w, mt, types, year) ==
    /\ pc = "serving"
    /\ calls[w].pc = "idle"
    /\ calls' = [calls EXCEPT ![w] =
          IF types = <<>>
          THEN [pc |-> "returned", map_type |-> mt, selected_types |-> types,
                selected_year |-> year, raised |-> FALSE,
                value |-> EmptySelectionReturn]
          ELSE [pc |-> "running", map_type |-> mt, selected_types |-> types,
                selected_year |-> year,
                filtered_df |-> YearFilter(df, year),
                melted |-> LongForm(YearFilter(df, year), types)]]
    /\ UNCHANGED <<pc, response, df, slider, map_type, selected_types,
                   selected_year, outputs, last>>

\* lines 258-404, from the locals
FinishCall(w) ==
    /\ calls[w].pc = "running"
    /\ \E res \in {Aggregate(calls[w].map_type, calls[w].selected_types,
                             calls[w].filtered_df, calls[w].melted)} :
          calls' = [calls EXCEPT ![w] =
              [pc |-> "returned", map_type |-> calls[w].map_type,
               selected_types |-> calls[w].selected_types,
               selected_year |-> calls[w].selected_year,
               raised |-> res.raised, value |-> res.value]]
    /\ UNCHANGED <<pc, response, df, slider, map_type, selected_types,
                   selected_year, outputs, last>>

\* the answer is sent and the worker is free again
Respond(w) ==
    /\ calls[w].pc = "returned"
    /\ calls' = [calls EXCEPT ![w] = Idle]
    /\ UNCHANGED <<pc, response, df, slider, map_type, selected_types,
                   selected_year, outputs, last>>

\* the record lists and checklist values of the overlapping requests
ConcData ==
    {ScenarioData, <<DateCountSlice[3], DateCountSlice[4], NameAreaSlice[3]>>}

ConcSelections ==
    {<<>>, woningtypes, <<"vrijeSectorKoop">>}

\* the server is up: the state the import leaves for one of the lists
InitConc ==
    /\ pc = "serving"
    /\ \E d \in ConcData :
          /\ response = [kind |-> "ok", data |-> d]
          /\ df = PrepareFrame(d)
          /\ slider = SliderOf(PrepareFrame(d))
          /\ selected_year = SliderOf(PrepareFrame(d)).value
    /\ map_type = "heatmap"
    /\ selected_types = woningtypes
    /\ outputs = NoOutputs
    /\ last = NoCall
    /\ calls = [w \in 1..NumWorkers |-> Idle]

NextConc ==
    \/ \E w \in 1..NumWorkers, mt \in {"scatter", "heatmap"},
          types \in ConcSelections, year \in slider.min..slider.max :
          BeginCall(w, mt, types, year)
    \/ \E w \in 1..NumWorkers : FinishCall(w)
    \/ \E w \in 1..NumWorkers : Respond(w)

SpecConc == InitConc /\ [][NextConc]_vars

-----------------------------------------------------------------------------
(* Vocabulary of the properties                                            *)

Called == last.outcome # "none"
Populated == last.outcome = "Populated"

MapData == outputs["map.figure"].data
WardData == outputs["pie-chart.figure"].data
BarData == outputs["bar-chart.figure"].data
LineData == outputs["line-chart.figure"].data
TopData == outputs["top10-chart.figure"].data

\* a row of df whose start year is at most the year of the last call
InYear(r) ==
    NotNull(r.startBouwGepland) /\ Val(r.startBouwGepland) <= last.selected_year

\* a row of df with a positive count of type t
Positive(r, t) == NotNull(r[t]) /\ Val(r[t]) > 0

\* the rows of df that have a long-form row in the last call
Contributing ==
    {i \in 1..Len(df) :
        InYear(df[i]) /\ \E t \in Range(last.selected_types) : Positive(df[i], t)}

\* sum of the counts of type t over the rows of df satisfying P
CountSum(P(_), t) ==
    SumSeq([i \in 1..Len(df) |->
              IF P(df[i]) /\ InYear(df[i]) /\ Positive(df[i], t)
              THEN Val(df[i][t]) ELSE 0])

-----------------------------------------------------------------------------
(* C1: the year filter keeps a row exactly when its start year is at most  *)
(* the ceiling or its start date is null.                                  *)

C1_YearFilterKeepsNullDates ==
    (Called /\ last.selected_types # <<>>) =>
        LET kept == {r.index : r \in Range(YearFilter(df, last.selected_year))}
        IN \A i \in 1..Len(df) :
              (df[i].index \in kept)
              <=> (IsNull(df[i].startBouwGepland)
                   \/ Val(df[i].startBouwGepland) <= last.selected_year)

(* C2: a call with no selected type raises no error and leaves each of the *)
(* nine declared outputs as it was.                                        *)

C2_EmptySelectionLeavesAllOutputs ==
    (Called /\ last.selected_types = <<>>) =>
        /\ ~last.raised
        /\ Len(last.value) = Len(CallbackOutputs)
        /\ \A k \in 1..Len(last.value) : last.value[k] = no_update
        /\ last.outcome = "NoUpdate"

(* C3: with types selected but no long-form row left after the year and    *)
(* the positive-count filter, the call returns an Empty result and raises  *)
(* no exception.                                                           *)

C3_EmptyLongFormIsNoException ==
    (Called /\ last.selected_types # <<>> /\ Contributing = {}) =>
        ~last.raised /\ last.outcome # "Exception"

(* C4: in a Populated result the by-year aggregate has, for every year     *)
(* from the first start year of df to the ceiling and every selected type, *)
(* exactly one row, holding the sum of the long-form counts of that year   *)
(* and type (0 when there is none).                                        *)

C4_ByYearIsDensified ==
    Populated =>
        \A y \in slider.min..last.selected_year, t \in Range(last.selected_types) :
            LET rows == {r \in LineData : r.jaar = y /\ r.woningtype = t}
                InYearY(r) == r.startBouwGepland = Some(y)
            IN /\ Cardinality(rows) = 1
               /\ \A r \in rows : r.aantal = CountSum(InYearY, t)

FetchFailed == response.kind \in {"ConnectionError", "HTTPError", "NoEmbedded"}

(* C5: a failed fetch raises nothing: the script goes on with an empty     *)
(* Normalized set and the process serves.                                  *)

C5_FetchFailureIsContained == FetchFailed => ~Crashed

LoadSucceeds(g) == ~g.isstr \/ g.wellformed

CentroidSucceeds(g) ==
    /\ NotNull(g.val)
    /\ Len(Val(g.val)) > 0
    /\ Len(Val(g.val)[1]) > 0
    /\ Len(Val(g.val)[1][1]) > 0
    /\ \A k \in 1..Len(Val(g.val)[1][1]) : Len(Val(g.val)[1][1][k]) >= 2

\* the centroid is a point the reprojection has an answer for
ReprojectionSucceeds(g) ==
    \A k \in 1..Len(Val(g.val)[1][1]) :
        Val(g.val)[1][1][k][1] # inf /\ Val(g.val)[1][1][k][2] # inf

Prepared == pc \in {"prepared", "serving", "crashed_BuildLayout"}

Finite(x) == NotNull(x) /\ Val(x) # inf

(* C6: df holds exactly the records whose geometry could be loaded, has a  *)
(* centroid and could be reprojected; every row of df has a finite         *)
(* longitude and latitude; no other field decides; a record that fails     *)
(* does not end the preparation.                                           *)

C6_RowAdmission ==
    /\ (response.kind = "ok" /\ Len(response.data) > 0) => pc # "crashed_PrepareData"
    /\ Prepared =>
         /\ {df[i].index : i \in 1..Len(df)}
              = {i \in 1..Len(response.data) :
                    /\ LoadSucceeds(response.data[i].geometrie)
                    /\ CentroidSucceeds(response.data[i].geometrie)
                    /\ ReprojectionSucceeds(response.data[i].geometrie)}
         /\ \A i \in 1..Len(df), j \in 1..Len(df) : i < j => df[i].index < df[j].index
         /\ \A i \in 1..Len(df) : Finite(df[i].lon) /\ Finite(df[i].lat)

\* what the preparation does ensure for C6: df holds exactly the records
\* that were loaded and have a centroid, in the order of the list, each with
\* a longitude and latitude that is not null
C6_NonNullAdmission ==
    /\ (response.kind = "ok" /\ Len(response.data) > 0) => pc # "crashed_PrepareData"
    /\ Prepared =>
         /\ {df[i].index : i \in 1..Len(df)}
              = {i \in 1..Len(response.data) :
                    /\ LoadSucceeds(response.data[i].geometrie)
                    /\ CentroidSucceeds(response.data[i].geometrie)}
         /\ \A i \in 1..Len(df), j \in 1..Len(df) : i < j => df[i].index < df[j].index
         /\ \A i \in 1..Len(df) : NotNull(df[i].lon) /\ NotNull(df[i].lat)

\* neighbourhoods of the long-form rows, with their grand totals
BuurtTotals ==
    [b \in {Val(MapData[i].buurtNaam) :
               i \in {j \in 1..Len(MapData) : NotNull(MapData[j].buurtNaam)}} |->
        SumSeq([i \in 1..Len(MapData) |->
                  IF MapData[i].buurtNaam = Some(b) THEN Val(MapData[i].value) ELSE 0])]

(* C7: in a Populated result the top-10 aggregate holds at most 10         *)
(* neighbourhoods, each with a grand total at least that of every          *)
(* neighbourhood left out, and all of them when there are 10 or fewer.     *)

C7_TopTenBound ==
    Populated =>
        \E tot \in {BuurtTotals} :
        \E included \in {{r.group : r \in TopData}} :
            /\ Cardinality(included) <= TopN
            /\ included \subseteq DOMAIN tot
            /\ \A b \in included, c \in DOMAIN tot \ included : tot[b] >= tot[c]
            /\ Cardinality(DOMAIN tot) <= TopN => included = DOMAIN tot

\* more than ten neighbourhoods, and one left out that is smaller than one kept
C7_Witness ==
    /\ Populated
    /\ Cardinality(DOMAIN BuurtTotals) > TopN
    /\ \E b \in {r.group : r \in TopData},
          c \in DOMAIN BuurtTotals \ {r.group : r \in TopData} :
          BuurtTotals[b] > BuurtTotals[c]

Kpi(o) == outputs[o].children

\* the projects (by the name the API gave them) that have a long-form row
ContributingProjects ==
    {response.data[df[i].index].projectnaamAfkorting : i \in Contributing} \ {NaN}

LongFormYears == [i \in 1..Len(MapData) |-> Val(MapData[i].startBouwGepland)]

(* C8: in a Populated result the KPIs are computed over the long-form rows *)
(* only: the total is the sum of their counts, projects the number of      *)
(* distinct projects with a long-form row, neighbourhoods the number of    *)
(* distinct neighbourhoods with one, the mean start year the mean of their *)
(* start years cut to an integer; the three-project scenario with all      *)
(* types and ceiling 2023 gives 10, 1 and 2023.                            *)

C8_SummaryStatistics ==
    Populated =>
        /\ Kpi("kpi-totaal.children")
             = FormatThousands(SumSeq([i \in 1..Len(MapData) |-> Val(MapData[i].value)]))
        /\ Kpi("kpi-projecten.children") = <<Cardinality(ContributingProjects)>>
        /\ Kpi("kpi-buurten.children") = <<Cardinality(DOMAIN BuurtTotals)>>
        /\ Kpi("kpi-gemjaar.children")
             = <<SumSeq(LongFormYears) \div Len(LongFormYears)>>
        /\ (response.data = ScenarioData /\ Len(last.selected_types) = 3
               /\ last.selected_year = 2023) =>
             /\ Kpi("kpi-totaal.children") = <<10>>
             /\ Kpi("kpi-projecten.children") = <<1>>
             /\ Kpi("kpi-gemjaar.children") = <<2023>>

\* what the code does compute for C8: projects counts the distinct non-null
\* short names of the long-form rows
C8_AsComputed ==
    Populated =>
        /\ Kpi("kpi-totaal.children")
             = FormatThousands(SumSeq([i \in 1..Len(MapData) |-> Val(MapData[i].value)]))
        /\ Kpi("kpi-projecten.children")
             = <<Cardinality({df[i].projectnaamAfkorting : i \in Contributing} \ {NaN})>>
        /\ Kpi("kpi-buurten.children") = <<Cardinality(DOMAIN BuurtTotals)>>
        /\ Kpi("kpi-gemjaar.children")
             = <<SumSeq(LongFormYears) \div Len(LongFormYears)>>
        /\ (response.data = ScenarioData /\ Len(last.selected_types) = 3
               /\ last.selected_year = 2023) =>
             /\ Kpi("kpi-totaal.children") = <<10>>
             /\ Kpi("kpi-projecten.children") = <<1>>
             /\ Kpi("kpi-gemjaar.children") = <<2023>>

\* the by-ward totals over the positive counts of df alone
PositiveByWard ==
    {[group |-> w, woningtype_label |-> label_map[t],
      value |-> CountSum(LAMBDA r : r.wijkNaam = Some(w), t)] :
       <<w, t>> \in {<<Val(df[i].wijkNaam), t>> :
                       i \in {j \in 1..Len(df) : NotNull(df[j].wijkNaam)},
                       t \in Range(last.selected_types)}}

(* C9: in a Populated result every long-form row has a count above zero;   *)
(* zero, negative and null counts are in no long-form row and add nothing  *)
(* to the geo points, the by-ward totals, the top-10 aggregate or the      *)
(* total.                                                                  *)

C9_PositiveCounts ==
    Populated =>
        /\ \A i \in 1..Len(MapData) :
              NotNull(MapData[i].value) /\ Val(MapData[i].value) > 0
        /\ Len(MapData)
             = Cardinality({<<i, t>> \in (1..Len(df)) \X Range(last.selected_types) :
                              InYear(df[i]) /\ Positive(df[i], t)})
        /\ WardData = {r \in PositiveByWard : r.value > 0}
        /\ BarData = WardData
        /\ \A r \in TopData : r.value > 0
        /\ Kpi("kpi-totaal.children")
             = FormatThousands(SumSeq([k \in 1..Len(last.selected_types) |->
                                  CountSum(LAMBDA r : TRUE, last.selected_types[k])]))

\* a Populated result over a frame with a selected count of zero or below
\* in a row that passed the year filter
C9_Witness ==
    /\ Populated
    /\ \E i \in 1..Len(df), t \in Range(last.selected_types) :
          InYear(df[i]) /\ NotNull(df[i][t]) /\ Val(df[i][t]) <= 0
    /\ \E i \in 1..Len(df), t \in Range(last.selected_types) :
          InYear(df[i]) /\ IsNull(df[i][t])

Returned(w) == calls[w].pc = "returned"

SameInputs(v, w) ==
    /\ calls[v].map_type = calls[w].map_type
    /\ calls[v].selected_types = calls[w].selected_types
    /\ calls[v].selected_year = calls[w].selected_year

(* C10: once the server is up no invocation, overlapping or not, changes  *)
(* df, and what a completed invocation returned is a function of df and of *)
(* its own input values alone: two completed invocations with the same     *)
(* input values returned the same.                                         *)

C10_NoCrossCallState ==
    /\ [][pc = "serving" => df' = df]_vars
    /\ [](\A w \in 1..NumWorkers :
            Returned(w) =>
                \E res \in {update_all_graphs(df, calls[w].map_type,
                              calls[w].selected_types, calls[w].selected_year)} :
                    calls[w].raised = res.raised /\ calls[w].value = res.value)
    /\ [](\A v \in 1..NumWorkers, w \in 1..NumWorkers :
            (Returned(v) /\ Returned(w) /\ SameInputs(v, w)) =>
                calls[v].raised = calls[w].raised /\ calls[v].value = calls[w].value)

\* two completed invocations with the same input values and a Populated
\* return, while the frame holds a row their year filter removes
C10_Witness ==
    \E v \in 1..NumWorkers, w \in 1..NumWorkers :
        /\ v # w
        /\ Returned(v) /\ Returned(w) /\ SameInputs(v, w)
        /\ ~calls[v].raised /\ calls[v].selected_types # <<>>
        /\ Len(YearFilter(df, calls[v].selected_year)) < Len(df)

====
